---- MODULE Spec2Model ----
(***************************************************************************)
(* Model of the Proxmox VE Terraform provider: provider Configure and the  *)
(* Create/Read/Update/Delete handlers of the SDN zone, SDN vnet and        *)
(* cluster firewall group resources, run against a remote Proxmox server.  *)
(*                                                                         *)
(* One step of the model is one whole handler invocation (or one change    *)
(* made to the server by somebody else).  The go-proxmox client and the    *)
(* server behind it are the environment: a remote call either fails, and   *)
(* the handler sees an error, or it acts on the server's entity table.     *)
(* The plugin framework is the environment too: it calls Create only for   *)
(* a resource without state, Read/Update/Delete only for one with state,   *)
(* keeps the prior state when a handler leaves the response state alone,   *)
(* and drops the state after a Delete without error diagnostics.           *)
(* Plan.Get, State.Get and State.Set cannot fail for the model structs of  *)
(* these resources, so their early returns are never taken.                *)
(***************************************************************************)
EXTENDS Integers, Sequences, FiniteSets, TLC

VARIABLES
    focus,          \* what this behaviour exercises: "provider", "zone", "fwgroup", "vnet",
                    \* "nodes", "networks" or "concurrent"
    config,         \* provider block of the configuration (proxmoxProviderModel)
    environ,        \* process environment: PROXMOX_HOST, PROXMOX_USERNAME, PROXMOX_PASSWORD
    stage,          \* provider Configure: "start", "returned" or "panicked"
    client,         \* the client built by proxmox.NewClient (NilClient before)
    versionCalls,   \* number of client.Version calls made
    DataSourceData, \* resp.DataSourceData of provider Configure
    ResourceData,   \* resp.ResourceData of provider Configure
    diags,          \* resp.Diagnostics of the most recent handler
    faulted,        \* the most recent handler ended in a Go panic
    remoteZones,    \* server: SDN zones by name
    remoteGroups,   \* server: cluster firewall groups by name
    remoteVnets,    \* server: SDN vnets by name
    remoteNodes,    \* server: the nodes of the cluster, in the order the server lists them
    remoteNetworks, \* server: the network interfaces of each node, in the server's order
    dsConfig,       \* configuration of the data source in focus
    tfstate,        \* Terraform state: <<>> or <<record>> of the resource or data source in focus
    ops,            \* concurrent firewall group operations in flight, one per instance
    start,          \* the operations and the server's groups when they were started
    overlap,        \* TRUE once an operation made a call while another was under way
    calls,          \* the remote calls of the most recent handler, in order: [call, arg, err]
    lastOp,         \* history: name of the most recent step
    streak,         \* history: successful Reads in a row up to now, counted up to 2
    lastPlan        \* history: <<[op, plan, prior]>> of the last Create/Update (its plan and
                    \* the state it found) when it succeeded and nothing but Reads
                    \* followed it, <<>> otherwise

vars == <<focus, config, environ, stage, client, versionCalls, DataSourceData,
          ResourceData, diags, faulted, remoteZones, remoteGroups, remoteVnets,
          remoteNodes, remoteNetworks, dsConfig, tfstate, ops, start, overlap, calls, lastOp,
          streak, lastPlan>>

providerVars == <<config, environ, stage, client, versionCalls, DataSourceData, ResourceData>>

dataVars == <<remoteNodes, remoteNetworks, dsConfig>>

parVars == <<ops, start, overlap>>

-----------------------------------------------------------------------------
(* Bounds and value domains                                                *)

MaxRules == 2

ZoneNames == {"example"}
ZoneTypes == {"vlan", "simple"}
DnsValues == {"", "192.168.2.201"}
BridgeValues == {"", "vmbr0"}
Digests == {"d1", "d2"}
GroupNames == {"example"}
VnetNames == {"vnet0"}

-----------------------------------------------------------------------------
(* types.String of the plugin framework: null, unknown or a known value    *)

Null == [state |-> "null", value |-> ""]

Unknown == [state |-> "unknown", value |-> ""]

StringValue(s) == [state |-> "known", value |-> s]

IsNull(v) == v.state = "null"

IsUnknown(v) == v.state = "unknown"

ValueString(v) == IF v.state = "known" THEN v.value ELSE ""

(* diag.Diagnostics                                                        *)

AddAttributeError(ds, p, summary) ==
    Append(ds, [severity |-> "error", path |-> p, summary |-> summary])

AddError(ds, summary) ==
    Append(ds, [severity |-> "error", path |-> "", summary |-> summary])

HasError(ds) == \E i \in 1..Len(ds) : ds[i].severity = "error"

-----------------------------------------------------------------------------
(* History bookkeeping shared by all steps                                 *)

LastOk == ~HasError(diags) /\ ~faulted

Record(op) ==
    /\ lastOp' = op
    /\ streak' = IF op = "Read" /\ ~HasError(diags') /\ ~faulted'
                 THEN (IF streak < 2 THEN streak + 1 ELSE 2)
                 ELSE 0

(* one remote call of a handler: what was called, for which entity, and    *)
(* whether the call returned an error                                      *)
Call(name, arg, err) == [call |-> name, arg |-> arg, err |-> err]

Ok(name, arg) == Call(name, arg, FALSE)

Err(name, arg) == Call(name, arg, TRUE)

Planned(op, plan) == <<[op |-> op, plan |-> plan, prior |-> tfstate]>>

-----------------------------------------------------------------------------
(* Provider Configure                                                      *)

NilClient == [set |-> FALSE, url |-> "", username |-> "", password |-> ""]

NewClient(baseURL, credentials) ==
    [set |-> TRUE, url |-> baseURL,
     username |-> credentials.Username, password |-> credentials.Password]

UnknownDiags(c) ==
    LET d1 == IF IsUnknown(c.host)
              THEN AddAttributeError(<<>>, "host", "Unknown Proxmox VE API Host")
              ELSE <<>>
        d2 == IF IsUnknown(c.username)
              THEN AddAttributeError(d1, "username", "Unknown Proxmox VE API Username")
              ELSE d1
    IN  IF IsUnknown(c.password)
        THEN AddAttributeError(d2, "password", "Unknown Proxmox VE API Password")
        ELSE d2

(* mutant: the environment variable wins whenever it is set *)
ResolveEnvOverride_EnvWins(envValue, configValue) ==
    IF envValue # "" THEN envValue ELSE ValueString(configValue)

(* "host := os.Getenv(...); if !config.Host.IsNull() { host = config.Host.ValueString() }" *)
ResolveEnvOverride(envValue, configValue) ==
    IF ~IsNull(configValue) THEN ValueString(configValue) ELSE envValue

(* mutant: the check of the username is missing *)
MissingDiags_NoUsername(host, username, password) ==
    LET d1 == IF host = ""
              THEN AddAttributeError(<<>>, "host", "Missing Proxmox VE API Host")
              ELSE <<>>
    IN  IF password = ""
        THEN AddAttributeError(d1, "password", "Missing Proxmox VE API Password")
        ELSE d1

MissingDiags(host, username, password) ==
    LET d1 == IF host = ""
              THEN AddAttributeError(<<>>, "host", "Missing Proxmox VE API Host")
              ELSE <<>>
        d2 == IF username = ""
              THEN AddAttributeError(d1, "username", "Missing Proxmox VE API Username")
              ELSE d1
    IN  IF password = ""
        THEN AddAttributeError(d2, "password", "Missing Proxmox VE API Password")
        ELSE d2

ConfigureReturn(ds) ==
    /\ diags' = ds
    /\ faulted' = FALSE
    /\ stage' = "returned"
    /\ calls' = <<>>
    /\ UNCHANGED <<client, versionCalls, DataSourceData, ResourceData>>

(* mutant: the client is handed out before the version call is looked at *)
Configure_ExposesFirst ==
    /\ focus = "provider"
    /\ stage = "start"
    /\ \E versionErr \in BOOLEAN :
        LET unknownDs == UnknownDiags(config)
            host == ResolveEnvOverride(environ.PROXMOX_HOST, config.host)
            username == ResolveEnvOverride(environ.PROXMOX_USERNAME, config.username)
            password == ResolveEnvOverride(environ.PROXMOX_PASSWORD, config.password)
            missingDs == MissingDiags(host, username, password)
            credentials == [Username |-> username, Password |-> password]
            c == NewClient(host \o "/api2/json", credentials)
        IN  IF HasError(unknownDs) THEN ConfigureReturn(unknownDs)
            ELSE IF HasError(missingDs) THEN ConfigureReturn(missingDs)
            ELSE /\ client' = c
                 /\ versionCalls' = versionCalls + 1
                 /\ calls' = <<Call("Version", "", versionErr)>>
                 /\ diags' = <<>>
                 /\ IF versionErr
                    THEN /\ faulted' = TRUE
                         /\ stage' = "panicked"
                         /\ DataSourceData' = c
                         /\ ResourceData' = c
                    ELSE /\ faulted' = FALSE
                         /\ stage' = "returned"
                         /\ DataSourceData' = c
                         /\ ResourceData' = c
    /\ Record("Configure")
    /\ UNCHANGED <<focus, parVars, config, environ, dataVars, remoteZones, remoteGroups, remoteVnets,
                   tfstate, lastPlan>>

(* proxmoxProvider.Configure *)
Configure ==
    /\ focus = "provider"
    /\ stage = "start"
    /\ \E versionErr \in BOOLEAN :
        LET unknownDs == UnknownDiags(config)
            host == ResolveEnvOverride(environ.PROXMOX_HOST, config.host)
            username == ResolveEnvOverride(environ.PROXMOX_USERNAME, config.username)
            password == ResolveEnvOverride(environ.PROXMOX_PASSWORD, config.password)
            missingDs == MissingDiags(host, username, password)
            credentials == [Username |-> username, Password |-> password]
            c == NewClient(host \o "/api2/json", credentials)
        IN  IF HasError(unknownDs) THEN ConfigureReturn(unknownDs)
            ELSE IF HasError(missingDs) THEN ConfigureReturn(missingDs)
            ELSE /\ client' = c
                 /\ versionCalls' = versionCalls + 1
                 /\ calls' = <<Call("Version", "", versionErr)>>
                 /\ diags' = <<>>
                 /\ IF versionErr
                    THEN /\ faulted' = TRUE
                         /\ stage' = "panicked"
                         /\ UNCHANGED <<DataSourceData, ResourceData>>
                    ELSE /\ faulted' = FALSE
                         /\ stage' = "returned"
                         /\ DataSourceData' = c
                         /\ ResourceData' = c
    /\ Record("Configure")
    /\ UNCHANGED <<focus, parVars, config, environ, dataVars, remoteZones, remoteGroups, remoteVnets,
                   tfstate, lastPlan>>

-----------------------------------------------------------------------------
(* Steps common to all resources                                           *)

NoState == <<>>

HasState == tfstate # NoState

State == tfstate[1]

NoPlan == <<>>

(* mutant: a handler that reports an error also empties the state *)
Abort_ClearsState(summary) ==
    /\ diags' = AddError(<<>>, summary)
    /\ faulted' = FALSE
    /\ tfstate' = NoState

(* The handler set no state and reported an error: the framework keeps the *)
(* prior state (none after a failed Create).                               *)
Abort(summary) ==
    /\ diags' = AddError(<<>>, summary)
    /\ faulted' = FALSE
    /\ UNCHANGED tfstate

(* The handler died of a Go panic: the plugin process is gone and nothing  *)
(* it had in hand is stored.                                               *)
Panic ==
    /\ diags' = <<>>
    /\ faulted' = TRUE
    /\ UNCHANGED tfstate

(* resp.State.Set(ctx, model) of a handler that reported no error.         *)
StateSet(model) ==
    /\ diags' = <<>>
    /\ faulted' = FALSE
    /\ tfstate' = <<model>>

-----------------------------------------------------------------------------
(* SDN zone resource                                                       *)

(* proxmox.ZoneConfig sent by Create *)
ZoneCreateConfig(plan) ==
    [Zone |-> ValueString(plan.Zone), Type |-> ValueString(plan.Type),
     Dns |-> ValueString(plan.Dns), Bridge |-> ValueString(plan.Bridge)]

(* proxmox.ZoneConfig sent by Update: no Type *)
ZoneUpdateConfig(plan) ==
    [Zone |-> ValueString(plan.Zone), Dns |-> ValueString(plan.Dns),
     Bridge |-> ValueString(plan.Bridge)]

(* mutant: dns and bridge are copied from the server even when empty *)
ZoneMapIntoPlan_Unconditional(plan, zone) ==
    [plan EXCEPT !.Zone = StringValue(zone.Zone),
                 !.Type = StringValue(zone.Type),
                 !.Digest = StringValue(zone.Digest),
                 !.Dns = StringValue(zone.Dns),
                 !.Bridge = StringValue(zone.Bridge)]

(* Create and Update: "Mapping response values to resource schema" *)
ZoneMapIntoPlan(plan, zone) ==
    LET p1 == [plan EXCEPT !.Zone = StringValue(zone.Zone),
                           !.Type = StringValue(zone.Type),
                           !.Digest = StringValue(zone.Digest)]
        p2 == IF zone.Dns # "" THEN [p1 EXCEPT !.Dns = StringValue(zone.Dns)] ELSE p1
    IN  IF zone.Bridge # "" THEN [p2 EXCEPT !.Bridge = StringValue(zone.Bridge)] ELSE p2

(* mutant: the type is taken from the wrong field of the response *)
ZoneMapIntoState_TypeFromZone(state, ret) ==
    [state EXCEPT !.Zone = StringValue(ret.Zone),
                  !.Type = StringValue(ret.Zone),
                  !.Dns = StringValue(ret.Dns),
                  !.Bridge = StringValue(ret.Bridge)]

(* Read: "Mapping response values to resource schema attributes"; the      *)
(* handler's assignments in their order, Digest is not among them.         *)
ZoneMapIntoState(state, ret) ==
    LET s1 == [state EXCEPT !.Zone = StringValue(ret.Zone),
                            !.Type = StringValue(ret.Type),
                            !.Bridge = StringValue(ret.Bridge)]
        s2 == IF ret.Dns # "" THEN [s1 EXCEPT !.Dns = StringValue(ret.Dns)] ELSE s1
        s3 == IF ret.Bridge # "" THEN [s2 EXCEPT !.Bridge = StringValue(ret.Bridge)] ELSE s2
    IN  [s3 EXCEPT !.Dns = StringValue(ret.Dns), !.Bridge = StringValue(ret.Bridge)]

(* Plans Terraform can hand to the zone handlers: zone and type are        *)
(* required, dns and bridge optional, digest computed (unknown in a plan). *)
OptionalString(values) == {Null} \cup {StringValue(v) : v \in values}

ZonePlans ==
    [Zone : {StringValue(n) : n \in ZoneNames},
     Type : {StringValue(t) : t \in ZoneTypes},
     Dns : OptionalString(DnsValues),
     Bridge : OptionalString(BridgeValues),
     Digest : {Unknown}]

RemoteZoneRecords ==
    [Zone : ZoneNames, Type : ZoneTypes, Dns : DnsValues, Bridge : BridgeValues,
     Digest : Digests]

PutZone(zones, z) ==
    [n \in (DOMAIN zones) \cup {z.Zone} |-> IF n = z.Zone THEN z ELSE zones[n]]

DropZone(zones, name) == [n \in (DOMAIN zones) \ {name} |-> zones[n]]

(* The server's answer to the update request of Zone.Update: the sent       *)
(* dns and bridge replace the stored ones (all of them, or only the        *)
(* non-empty ones when the client omits empty fields), under a new digest. *)
ZoneApplyUpdate(z, cfg, omitEmpty, digest) ==
    [z EXCEPT !.Dns = IF omitEmpty /\ cfg.Dns = "" THEN @ ELSE cfg.Dns,
              !.Bridge = IF omitEmpty /\ cfg.Bridge = "" THEN @ ELSE cfg.Bridge,
              !.Digest = digest]

ZoneCreate ==
    /\ focus = "zone"
    /\ ~HasState
    /\ \E plan \in ZonePlans :
        LET cfg == ZoneCreateConfig(plan)
            zone(d) == [Zone |-> cfg.Zone, Type |-> cfg.Type, Dns |-> cfg.Dns,
                        Bridge |-> cfg.Bridge, Digest |-> d]
        IN  \/ \* client.NewZone returns an error, nothing was created
               /\ calls' = <<Err("NewZone", cfg.Zone)>>
               /\ Abort("Unable to Read Proxmox Node")
               /\ UNCHANGED remoteZones
               /\ lastPlan' = NoPlan
            \/ \* client.NewZone returns an error, the zone was created all the same
               /\ cfg.Zone \notin DOMAIN remoteZones
               /\ \E d \in Digests : remoteZones' = PutZone(remoteZones, zone(d))
               /\ calls' = <<Err("NewZone", cfg.Zone)>>
               /\ Abort("Unable to Read Proxmox Node")
               /\ lastPlan' = NoPlan
            \/ \* client.NewZone returns the new zone
               /\ cfg.Zone \notin DOMAIN remoteZones
               /\ \E d \in Digests :
                    /\ remoteZones' = PutZone(remoteZones, zone(d))
                    /\ StateSet(ZoneMapIntoPlan(plan, zone(d)))
               /\ calls' = <<Ok("NewZone", cfg.Zone)>>
               /\ lastPlan' = Planned("Create", plan)
    /\ Record("Create")
    /\ UNCHANGED <<focus, parVars, providerVars, dataVars, remoteGroups, remoteVnets>>

(* mutant: a zone that is gone from the server is dropped from the state *)
ZoneRead_RemovesMissing ==
    /\ focus = "zone"
    /\ HasState
    /\ LET zoneName == ValueString(State.Zone)
       IN  \/ /\ zoneName \in DOMAIN remoteZones
              /\ calls' = <<Err("Zone", zoneName)>>
              /\ Abort("Unable to Read Proxmox Node")
           \/ /\ zoneName \notin DOMAIN remoteZones
              /\ calls' = <<Err("Zone", zoneName)>>
              /\ diags' = <<>>
              /\ faulted' = FALSE
              /\ tfstate' = NoState
           \/ /\ zoneName \in DOMAIN remoteZones
              /\ calls' = <<Ok("Zone", zoneName)>>
              /\ StateSet(ZoneMapIntoState(State, remoteZones[zoneName]))
    /\ Record("Read")
    /\ UNCHANGED <<focus, parVars, providerVars, dataVars, remoteZones, remoteGroups, remoteVnets, lastPlan>>

(* sdnZoneResource.Read *)
ZoneRead ==
    /\ focus = "zone"
    /\ HasState
    /\ LET zoneName == ValueString(State.Zone)
       IN  \/ \* client.Zone returns an error
              /\ calls' = <<Err("Zone", zoneName)>>
              /\ Abort("Unable to Read Proxmox Node")
           \/ /\ zoneName \in DOMAIN remoteZones
              /\ calls' = <<Ok("Zone", zoneName)>>
              /\ StateSet(ZoneMapIntoState(State, remoteZones[zoneName]))
    /\ Record("Read")
    /\ UNCHANGED <<focus, parVars, providerVars, dataVars, remoteZones, remoteGroups, remoteVnets, lastPlan>>

ZoneUpdate ==
    /\ focus = "zone"
    /\ HasState
    /\ \E plan \in ZonePlans :
        LET zoneName == ValueString(plan.Zone)
            cfg == ZoneUpdateConfig(plan)
        IN  /\ plan.Zone = State.Zone
            /\ plan.Type = State.Type
            /\ <<plan.Dns, plan.Bridge>> # <<State.Dns, State.Bridge>>
            /\ \/ \* the first client.Zone returns an error
                  /\ calls' = <<Err("Zone", zoneName)>>
                  /\ Abort("Unable to Read Proxmox Node")
                  /\ UNCHANGED remoteZones
                  /\ lastPlan' = NoPlan
               \/ /\ zoneName \in DOMAIN remoteZones
                  /\ \E updateErr \in BOOLEAN, fetchErr \in BOOLEAN :
                       /\ IF updateErr
                          THEN \* ret.Update fails; its result is dropped
                               UNCHANGED remoteZones
                          ELSE \E omitEmpty \in BOOLEAN, d \in Digests :
                                 /\ d # remoteZones[zoneName].Digest
                                 /\ remoteZones' =
                                      PutZone(remoteZones,
                                              ZoneApplyUpdate(remoteZones[zoneName], cfg,
                                                              omitEmpty, d))
                       /\ calls' = <<Ok("Zone", zoneName),
                                     Call("Zone.Update", zoneName, updateErr),
                                     Call("Zone", zoneName, fetchErr)>>
                       /\ IF fetchErr
                          THEN \* the second client.Zone returns an error
                               /\ Abort("Unable to Read Proxmox Node")
                               /\ lastPlan' = NoPlan
                          ELSE /\ StateSet(ZoneMapIntoPlan(plan, remoteZones'[zoneName]))
                               /\ lastPlan' = Planned("Update", plan)
    /\ Record("Update")
    /\ UNCHANGED <<focus, parVars, providerVars, dataVars, remoteGroups, remoteVnets>>

ZoneDelete ==
    /\ focus = "zone"
    /\ HasState
    /\ LET zoneName == ValueString(State.Zone)
       IN  \/ \* client.Zone returns an error
              /\ calls' = <<Err("Zone", zoneName)>>
              /\ Abort("Unable to Read Proxmox Node")
              /\ UNCHANGED remoteZones
              /\ lastPlan' = NoPlan
           \/ /\ zoneName \in DOMAIN remoteZones
              /\ \/ \* zone.Delete fails; its result is dropped
                    /\ calls' = <<Ok("Zone", zoneName), Err("Zone.Delete", zoneName)>>
                    /\ UNCHANGED remoteZones
                 \/ /\ calls' = <<Ok("Zone", zoneName), Ok("Zone.Delete", zoneName)>>
                    /\ remoteZones' = DropZone(remoteZones, zoneName)
              /\ diags' = <<>>
              /\ faulted' = FALSE
              /\ tfstate' = NoState
              /\ lastPlan' = NoPlan
    /\ Record("Delete")
    /\ UNCHANGED <<focus, parVars, providerVars, dataVars, remoteGroups, remoteVnets>>

(* Somebody else creates, changes or removes an entity on the server.      *)
ForeignStep ==
    /\ diags' = <<>>
    /\ faulted' = FALSE
    /\ lastPlan' = NoPlan
    /\ calls' = <<>>
    /\ Record("Foreign")
    /\ UNCHANGED <<focus, parVars, providerVars, tfstate>>

ForeignZonePut ==
    /\ focus = "zone"
    /\ \E z \in RemoteZoneRecords :
        /\ z.Zone \in DOMAIN remoteZones =>
              /\ z.Digest # remoteZones[z.Zone].Digest
              /\ z.Type = remoteZones[z.Zone].Type
        /\ remoteZones' = PutZone(remoteZones, z)
    /\ ForeignStep
    /\ UNCHANGED <<remoteGroups, remoteVnets, dataVars>>

ForeignZoneDelete ==
    /\ focus = "zone"
    /\ \E n \in DOMAIN remoteZones : remoteZones' = DropZone(remoteZones, n)
    /\ ForeignStep
    /\ UNCHANGED <<remoteGroups, remoteVnets, dataVars>>

-----------------------------------------------------------------------------
(* Cluster firewall group resource                                         *)

RuleValues ==
    {[Action |-> "ACCEPT", Type |-> "in"], [Action |-> "DROP", Type |-> "in"],
     [Action |-> "ACCEPT", Type |-> "out"]}

RuleLists(S) == UNION {[1..n -> S] : n \in 0..MaxRules}

(* mutant: action and type are crossed over *)
RuleModel_Crossed(rule) == [Action |-> StringValue(rule.Type), Type |-> StringValue(rule.Action)]

(* clusterFirewallGroupRuleModel of a remote rule *)
RuleModel(rule) == [Action |-> StringValue(rule.Action), Type |-> StringValue(rule.Type)]

(* []clusterFirewallGroupRuleModel: a Go slice, nil for a null list *)
NilSlice == [isNil |-> TRUE, elems |-> <<>>]

Slice(elems) == [isNil |-> FALSE, elems |-> elems]

PlanRuleValues ==
    {[Action |-> StringValue(r.Action), Type |-> StringValue(r.Type)] : r \in RuleValues}

(* Plans Terraform can hand to the group handlers: group is required, the  *)
(* rule list optional, action and type of a rule required.                 *)
GroupPlans ==
    [Group : {StringValue(g) : g \in GroupNames},
     FirewallRules : {NilSlice} \cup {Slice(l) : l \in RuleLists(PlanRuleValues)}]

(* mutant: the loop over the plan's rules stops one rule early *)
PlanRules_DropsLast(plan) ==
    [i \in 1..(Len(plan.FirewallRules.elems) - 1) |->
        [Action |-> ValueString(plan.FirewallRules.elems[i].Action),
         Type |-> ValueString(plan.FirewallRules.elems[i].Type)]]

(* "rules = append(rules, &proxmox.FirewallRule{...})" over the plan *)
PlanRules(plan) ==
    [i \in 1..Len(plan.FirewallRules.elems) |->
        [Action |-> ValueString(plan.FirewallRules.elems[i].Action),
         Type |-> ValueString(plan.FirewallRules.elems[i].Type)]]

(* proxmox.FirewallSecurityGroup built from the plan *)
GroupFromPlan(plan) == [Group |-> ValueString(plan.Group), Rules |-> PlanRules(plan)]

(* "model.FirewallRules[index] = ..." is in range for every fetched rule *)
RulesFit(model, fwGroup) == Len(fwGroup.Rules) <= Len(model.FirewallRules.elems)

(* mutant: the fetched rules are put in front of the list, not over it *)
CopyRules_InFront(model, fwGroup) ==
    [model EXCEPT !.Group = StringValue(fwGroup.Group),
                  !.FirewallRules.elems =
                      SubSeq([i \in 1..Len(fwGroup.Rules) |-> RuleModel(fwGroup.Rules[i])] \o @,
                             1, Len(@))]

(* "for index, rule := range fwGroup.Rules { model.FirewallRules[index] = ... }" *)
CopyRules(model, fwGroup) ==
    [model EXCEPT !.Group = StringValue(fwGroup.Group),
                  !.FirewallRules.elems =
                      [i \in 1..Len(@) |-> IF i <= Len(fwGroup.Rules)
                                           THEN RuleModel(fwGroup.Rules[i])
                                           ELSE @[i]]]

(* The tail of Create, Read and Update: copy the fetched group, set state *)
CopyAndSet(model, fwGroup) ==
    IF RulesFit(model, fwGroup) THEN StateSet(CopyRules(model, fwGroup)) ELSE Panic

PutGroup(groups, g) ==
    [n \in (DOMAIN groups) \cup {g.Group} |-> IF n = g.Group THEN g ELSE groups[n]]

DropGroup(groups, name) == [n \in (DOMAIN groups) \ {name} |-> groups[n]]

(* mutant: a failed fetch after the create deletes the new group again *)
GroupCreate_RollsBack ==
    /\ focus = "fwgroup"
    /\ ~HasState
    /\ \E plan \in GroupPlans :
        LET fwGroupN == GroupFromPlan(plan)
        IN  \/ \* client.Cluster returns an error
               /\ calls' = <<Err("Cluster", "")>>
               /\ Abort("Unable to Read Proxmox Cluster")
               /\ UNCHANGED remoteGroups
               /\ lastPlan' = NoPlan
            \/ \* cluster.NewFWGroup returns an error
               /\ calls' = <<Ok("Cluster", ""), Err("NewFWGroup", fwGroupN.Group)>>
               /\ Abort("Unable to create Proxmox Cluster Firewall Group")
               /\ UNCHANGED remoteGroups
               /\ lastPlan' = NoPlan
            \/ /\ fwGroupN.Group \notin DOMAIN remoteGroups
               /\ calls' = <<Ok("Cluster", ""), Ok("NewFWGroup", fwGroupN.Group),
                             Err("FWGroup", fwGroupN.Group),
                             Ok("FWGroup.Delete", fwGroupN.Group)>>
               /\ Abort("Unable to retrieve Proxmox Cluster Firewall Group")
               /\ UNCHANGED remoteGroups
               /\ lastPlan' = NoPlan
            \/ /\ fwGroupN.Group \notin DOMAIN remoteGroups
               /\ remoteGroups' = PutGroup(remoteGroups, fwGroupN)
               /\ \/ /\ calls' = <<Ok("Cluster", ""), Ok("NewFWGroup", fwGroupN.Group),
                                   Ok("FWGroup", fwGroupN.Group)>>
                     /\ CopyAndSet(plan, remoteGroups'[fwGroupN.Group])
                     /\ lastPlan' = IF faulted' THEN NoPlan ELSE Planned("Create", plan)
    /\ Record("Create")
    /\ UNCHANGED <<focus, parVars, providerVars, dataVars, remoteZones, remoteVnets>>

(* clusterFirewallGroupResource.Create *)
GroupCreate ==
    /\ focus = "fwgroup"
    /\ ~HasState
    /\ \E plan \in GroupPlans :
        LET fwGroupN == GroupFromPlan(plan)
        IN  \/ \* client.Cluster returns an error
               /\ calls' = <<Err("Cluster", "")>>
               /\ Abort("Unable to Read Proxmox Cluster")
               /\ UNCHANGED remoteGroups
               /\ lastPlan' = NoPlan
            \/ \* cluster.NewFWGroup returns an error
               /\ calls' = <<Ok("Cluster", ""), Err("NewFWGroup", fwGroupN.Group)>>
               /\ Abort("Unable to create Proxmox Cluster Firewall Group")
               /\ UNCHANGED remoteGroups
               /\ lastPlan' = NoPlan
            \/ /\ fwGroupN.Group \notin DOMAIN remoteGroups
               /\ remoteGroups' = PutGroup(remoteGroups, fwGroupN)
               /\ \/ \* cluster.FWGroup returns an error
                     /\ calls' = <<Ok("Cluster", ""), Ok("NewFWGroup", fwGroupN.Group),
                                   Err("FWGroup", fwGroupN.Group)>>
                     /\ Abort("Unable to retrieve Proxmox Cluster Firewall Group")
                     /\ lastPlan' = NoPlan
                  \/ /\ calls' = <<Ok("Cluster", ""), Ok("NewFWGroup", fwGroupN.Group),
                                   Ok("FWGroup", fwGroupN.Group)>>
                     /\ CopyAndSet(plan, remoteGroups'[fwGroupN.Group])
                     /\ lastPlan' = IF faulted' THEN NoPlan ELSE Planned("Create", plan)
    /\ Record("Create")
    /\ UNCHANGED <<focus, parVars, providerVars, dataVars, remoteZones, remoteVnets>>

GroupRead ==
    /\ focus = "fwgroup"
    /\ HasState
    /\ LET name == ValueString(State.Group)
       IN  \/ \* client.Cluster returns an error
              /\ calls' = <<Err("Cluster", "")>>
              /\ Abort("Unable to Read Proxmox Cluster")
           \/ \* cluster.FWGroup returns an error
              /\ calls' = <<Ok("Cluster", ""), Err("FWGroup", name)>>
              /\ Abort("Unable to retrieve Proxmox Cluster Firewall Group")
           \/ /\ name \in DOMAIN remoteGroups
              /\ calls' = <<Ok("Cluster", ""), Ok("FWGroup", name)>>
              /\ CopyAndSet(State, remoteGroups[name])
    /\ Record("Read")
    /\ UNCHANGED <<focus, parVars, providerVars, dataVars, remoteZones, remoteGroups, remoteVnets, lastPlan>>

GroupUpdate ==
    /\ focus = "fwgroup"
    /\ HasState
    /\ \E plan \in GroupPlans :
        LET name == ValueString(plan.Group)
            fwGroupN == GroupFromPlan(plan)
        IN  /\ plan # State
            /\ \/ \* client.Cluster returns an error
                  /\ calls' = <<Err("Cluster", "")>>
                  /\ Abort("Unable to Read Proxmox Cluster")
                  /\ UNCHANGED remoteGroups
                  /\ lastPlan' = NoPlan
               \/ \* the first cluster.FWGroup returns an error
                  /\ calls' = <<Ok("Cluster", ""), Err("FWGroup", name)>>
                  /\ Abort("Unable to retrieve Proxmox Cluster Firewall Group")
                  /\ UNCHANGED remoteGroups
                  /\ lastPlan' = NoPlan
               \/ \* fwGroup.Delete returns an error
                  /\ name \in DOMAIN remoteGroups
                  /\ calls' = <<Ok("Cluster", ""), Ok("FWGroup", name),
                                Err("FWGroup.Delete", name)>>
                  /\ Abort("Unable to Read Proxmox Cluster")
                  /\ UNCHANGED remoteGroups
                  /\ lastPlan' = NoPlan
               \/ \* cluster.NewFWGroup returns an error, after the delete
                  /\ name \in DOMAIN remoteGroups
                  /\ remoteGroups' = DropGroup(remoteGroups, name)
                  /\ calls' = <<Ok("Cluster", ""), Ok("FWGroup", name),
                                Ok("FWGroup.Delete", name), Err("NewFWGroup", name)>>
                  /\ Abort("Unable to create Proxmox Cluster Firewall Group")
                  /\ lastPlan' = NoPlan
               \/ /\ name \in DOMAIN remoteGroups
                  /\ remoteGroups' = PutGroup(DropGroup(remoteGroups, name), fwGroupN)
                  /\ \/ \* the second cluster.FWGroup returns an error
                        /\ calls' = <<Ok("Cluster", ""), Ok("FWGroup", name),
                                      Ok("FWGroup.Delete", name), Ok("NewFWGroup", name),
                                      Err("FWGroup", name)>>
                        /\ Abort("Unable to retrieve Proxmox Cluster Firewall Group")
                        /\ lastPlan' = NoPlan
                     \/ /\ calls' = <<Ok("Cluster", ""), Ok("FWGroup", name),
                                      Ok("FWGroup.Delete", name), Ok("NewFWGroup", name),
                                      Ok("FWGroup", name)>>
                        /\ CopyAndSet(plan, remoteGroups'[fwGroupN.Group])
                        /\ lastPlan' = IF faulted' THEN NoPlan ELSE Planned("Update", plan)
    /\ Record("Update")
    /\ UNCHANGED <<focus, parVars, providerVars, dataVars, remoteZones, remoteVnets>>

(* The handler has an empty body: no remote call, no diagnostic.           *)
GroupDelete ==
    /\ focus = "fwgroup"
    /\ HasState
    /\ diags' = <<>>
    /\ faulted' = FALSE
    /\ tfstate' = NoState
    /\ calls' = <<>>
    /\ lastPlan' = NoPlan
    /\ Record("Delete")
    /\ UNCHANGED <<focus, parVars, providerVars, dataVars, remoteZones, remoteGroups, remoteVnets>>

ForeignGroupPut ==
    /\ focus = "fwgroup"
    /\ \E g \in [Group : GroupNames, Rules : RuleLists(RuleValues)] :
        /\ g.Group \in DOMAIN remoteGroups => g # remoteGroups[g.Group]
        /\ remoteGroups' = PutGroup(remoteGroups, g)
    /\ ForeignStep
    /\ UNCHANGED <<remoteZones, remoteVnets, dataVars>>

ForeignGroupDelete ==
    /\ focus = "fwgroup"
    /\ \E n \in DOMAIN remoteGroups : remoteGroups' = DropGroup(remoteGroups, n)
    /\ ForeignStep
    /\ UNCHANGED <<remoteZones, remoteVnets, dataVars>>

-----------------------------------------------------------------------------
(* SDN vnet resource                                                       *)

VnetZones == {"example", "other"}

VnetPlans ==
    [Zone : {StringValue(z) : z \in VnetZones}, Vnet : {StringValue(v) : v \in VnetNames}]

PutVnet(vnets, v) ==
    [n \in (DOMAIN vnets) \cup {v.Vnet} |-> IF n = v.Vnet THEN v ELSE vnets[n]]

DropVnet(vnets, name) == [n \in (DOMAIN vnets) \ {name} |-> vnets[n]]

(* Read: "Mapping respnnse values to resource schema attributes"; the zone *)
(* is taken from the fetched vnet.                                         *)
VnetMapIntoState(state, ret) ==
    [state EXCEPT !.Vnet = StringValue(ret.Vnet), !.Zone = StringValue(ret.Zone)]

(* mutant: the plan is stored before the result of NewVnet is looked at *)
VnetCreate_StoresFirst ==
    /\ focus = "vnet"
    /\ ~HasState
    /\ \E plan \in VnetPlans :
        LET vnet == ValueString(plan.Vnet)
            vnetZone == ValueString(plan.Zone)
        IN  \/ /\ calls' = <<Err("NewVnet", vnet)>>
               /\ diags' = AddError(<<>>, "Unable to Read Proxmox Node")
               /\ faulted' = FALSE
               /\ tfstate' = <<plan>>
               /\ UNCHANGED remoteVnets
               /\ lastPlan' = NoPlan
            \/ /\ vnet \notin DOMAIN remoteVnets
               /\ remoteVnets' = PutVnet(remoteVnets, [Vnet |-> vnet, Zone |-> vnetZone])
               /\ calls' = <<Ok("NewVnet", vnet)>>
               /\ StateSet(plan)
               /\ lastPlan' = Planned("Create", plan)
    /\ Record("Create")
    /\ UNCHANGED <<focus, parVars, providerVars, dataVars, remoteZones, remoteGroups>>

VnetCreate ==
    /\ focus = "vnet"
    /\ ~HasState
    /\ \E plan \in VnetPlans :
        LET vnet == ValueString(plan.Vnet)
            vnetZone == ValueString(plan.Zone)
        IN  \/ \* client.NewVnet returns an error
               /\ calls' = <<Err("NewVnet", vnet)>>
               /\ Abort("Unable to Read Proxmox Node")
               /\ UNCHANGED remoteVnets
               /\ lastPlan' = NoPlan
            \/ /\ vnet \notin DOMAIN remoteVnets
               /\ remoteVnets' = PutVnet(remoteVnets, [Vnet |-> vnet, Zone |-> vnetZone])
               /\ calls' = <<Ok("NewVnet", vnet)>>
               /\ StateSet(plan)
               /\ lastPlan' = Planned("Create", plan)
    /\ Record("Create")
    /\ UNCHANGED <<focus, parVars, providerVars, dataVars, remoteZones, remoteGroups>>

VnetRead ==
    /\ focus = "vnet"
    /\ HasState
    /\ LET zoneName == ValueString(State.Vnet)
       IN  \/ \* client.Vnet returns an error
              /\ calls' = <<Err("Vnet", zoneName)>>
              /\ Abort("Unable to Read Proxmox Node")
           \/ /\ zoneName \in DOMAIN remoteVnets
              /\ calls' = <<Ok("Vnet", zoneName)>>
              /\ StateSet(VnetMapIntoState(State, remoteVnets[zoneName]))
    /\ Record("Read")
    /\ UNCHANGED <<focus, parVars, providerVars, dataVars, remoteZones, remoteGroups, remoteVnets, lastPlan>>

(* The handler only logs: the prior state stays, nothing is sent.          *)
VnetUpdate ==
    /\ focus = "vnet"
    /\ HasState
    /\ \E plan \in VnetPlans : plan # State
    /\ calls' = <<>>
    /\ diags' = <<>>
    /\ faulted' = FALSE
    /\ lastPlan' = NoPlan
    /\ Record("Update")
    /\ UNCHANGED <<focus, parVars, providerVars, dataVars, remoteZones, remoteGroups, remoteVnets, tfstate>>

VnetDelete ==
    /\ focus = "vnet"
    /\ HasState
    /\ LET name == ValueString(State.Vnet)
       IN  \/ \* client.Vnet returns an error
              /\ calls' = <<Err("Vnet", name)>>
              /\ Abort("Unable to Read Proxmox Node")
              /\ UNCHANGED remoteVnets
           \/ /\ name \in DOMAIN remoteVnets
              /\ \/ \* zone.Delete fails; its result is dropped
                    /\ calls' = <<Ok("Vnet", name), Err("Vnet.Delete", name)>>
                    /\ UNCHANGED remoteVnets
                 \/ /\ calls' = <<Ok("Vnet", name), Ok("Vnet.Delete", name)>>
                    /\ remoteVnets' = DropVnet(remoteVnets, name)
              /\ diags' = <<>>
              /\ faulted' = FALSE
              /\ tfstate' = NoState
    /\ lastPlan' = NoPlan
    /\ Record("Delete")
    /\ UNCHANGED <<focus, parVars, providerVars, dataVars, remoteZones, remoteGroups>>

ForeignVnetPut ==
    /\ focus = "vnet"
    /\ \E v \in [Vnet : VnetNames, Zone : VnetZones] :
        /\ v.Vnet \in DOMAIN remoteVnets => v # remoteVnets[v.Vnet]
        /\ remoteVnets' = PutVnet(remoteVnets, v)
    /\ ForeignStep
    /\ UNCHANGED <<remoteZones, remoteGroups, dataVars>>

ForeignVnetDelete ==
    /\ focus = "vnet"
    /\ \E n \in DOMAIN remoteVnets : remoteVnets' = DropVnet(remoteVnets, n)
    /\ ForeignStep
    /\ UNCHANGED <<remoteZones, remoteGroups, dataVars>>

-----------------------------------------------------------------------------
(* Data sources proxmox_nodes and proxmox_node_networks                    *)

MaxNodes == 2

MaxNetworks == 2

(* cluster.Nodes entries as the server may report them; the numbers stay   *)
(* inside the int64 range, where int64(...) changes nothing                *)
NodeValues ==
    {[ID |-> "node/pve1", Name |-> "pve1", Status |-> "online", MaxCPU |-> 4, MaxMem |-> 8,
      MaxDisk |-> 16, SSLFingerprint |-> "AA:01", Type |-> "node", Level |-> ""],
     [ID |-> "node/pve2", Name |-> "pve2", Status |-> "offline", MaxCPU |-> 0, MaxMem |-> 0,
      MaxDisk |-> 0, SSLFingerprint |-> "BB:02", Type |-> "node", Level |-> "c"],
     [ID |-> "node/pve3", Name |-> "pve3", Status |-> "online", MaxCPU |-> 2, MaxMem |-> 4,
      MaxDisk |-> 8, SSLFingerprint |-> "CC:03", Type |-> "node", Level |-> ""]}

NodeLists == UNION {[1..n -> NodeValues] : n \in 0..MaxNodes}

(* node names a configuration may ask for *)
NodeNames == {"pve1", "pve2"}

(* node names the cluster may have *)
ClusterNodeNames == {"pve1"}

(* node.Networks entries as the server may report them *)
NetworkValues ==
    {[Active |-> 1, Method |-> "static", Iface |-> "vmbr0", Type |-> "bridge"],
     [Active |-> 0, Method |-> "manual", Iface |-> "eno1", Type |-> "eth"],
     [Active |-> 2, Method |-> "dhcp", Iface |-> "eno2", Type |-> "eth"]}

NetworkLists == UNION {[1..n -> NetworkValues] : n \in 0..MaxNetworks}

Int64Value(n) == [state |-> "known", value |-> n]

BoolValue(b) == [state |-> "known", value |-> b]

(* "state.Data = append(state.Data, ...)" over a list: nil while nothing   *)
(* was appended                                                            *)
Appended(elems) == IF elems = <<>> THEN NilSlice ELSE Slice(elems)

(* A data source read that reports an error: the response state is never   *)
(* set, so Terraform has no result for the data source.                    *)
DataAbort(summary) ==
    /\ diags' = AddError(<<>>, summary)
    /\ faulted' = FALSE
    /\ tfstate' = NoState

(* mutant: the status of a node is taken from its type *)
NodeModel_StatusFromType(node) ==
    [ID |-> StringValue(node.ID), Node |-> StringValue(node.Name),
     Status |-> StringValue(node.Type), MaxCPU |-> Int64Value(node.MaxCPU),
     MaxMem |-> Int64Value(node.MaxMem), MaxDisk |-> Int64Value(node.MaxDisk),
     SSLFingerprint |-> StringValue(node.SSLFingerprint), Type |-> StringValue(node.Type),
     Level |-> StringValue(node.Level)]

(* "nodeState := nodeModel{...}" *)
NodeModel(node) ==
    [ID |-> StringValue(node.ID), Node |-> StringValue(node.Name),
     Status |-> StringValue(node.Status), MaxCPU |-> Int64Value(node.MaxCPU),
     MaxMem |-> Int64Value(node.MaxMem), MaxDisk |-> Int64Value(node.MaxDisk),
     SSLFingerprint |-> StringValue(node.SSLFingerprint), Type |-> StringValue(node.Type),
     Level |-> StringValue(node.Level)]

(* the loop over cluster.Nodes *)
NodesModel(nodes) == [Data |-> Appended([i \in 1..Len(nodes) |-> NodeModel(nodes[i])])]

NodesRead ==
    /\ focus = "nodes"
    /\ \/ \* client.Cluster returns an error
          /\ calls' = <<Err("Cluster", "")>>
          /\ DataAbort("Unable to Read Proxmox Cluster")
       \/ /\ calls' = <<Ok("Cluster", "")>>
          /\ StateSet(NodesModel(remoteNodes))
    /\ Record("Read")
    /\ UNCHANGED <<focus, parVars, providerVars, dataVars, remoteZones, remoteGroups, remoteVnets, lastPlan>>

(* The cluster gains, loses or reorders nodes, or a node changes status.   *)
ForeignNodesChange ==
    /\ focus = "nodes"
    /\ \E nodes \in NodeLists :
        /\ nodes # remoteNodes
        /\ remoteNodes' = nodes
    /\ ForeignStep
    /\ UNCHANGED <<remoteZones, remoteGroups, remoteVnets, remoteNetworks, dsConfig>>

(* mutant: every interface that is not reported as 0 counts as active *)
NetworkModel_ActiveUnlessZero(network) ==
    [Active |-> BoolValue(network.Active # 0), Method |-> StringValue(network.Method),
     Iface |-> StringValue(network.Iface), Type |-> StringValue(network.Type)]

(* "active := network.Active == 1" and "networkState := nodeNetworkModel{...}" *)
NetworkModel(network) ==
    [Active |-> BoolValue(network.Active = 1), Method |-> StringValue(network.Method),
     Iface |-> StringValue(network.Iface), Type |-> StringValue(network.Type)]

(* the loop over the fetched networks; state.Node is never assigned *)
NetworksModel(networks) ==
    [Node |-> Null,
     Networks |-> Appended([i \in 1..Len(networks) |-> NetworkModel(networks[i])])]

(* mutant: a result is stored before the networks are fetched *)
NetworksRead_StoresEarly ==
    /\ focus = "networks"
    /\ LET nodeName == ValueString(dsConfig)
       IN  \/ /\ calls' = <<Err("Node", nodeName)>>
              /\ DataAbort("Unable to Read Proxmox Node")
           \/ /\ nodeName \in DOMAIN remoteNetworks
              /\ calls' = <<Ok("Node", nodeName), Err("Node.Networks", nodeName)>>
              /\ diags' = AddError(<<>>, "Unable to Read Proxmox Node Networks")
              /\ faulted' = FALSE
              /\ tfstate' = <<NetworksModel(<<>>)>>
           \/ /\ nodeName \in DOMAIN remoteNetworks
              /\ calls' = <<Ok("Node", nodeName), Ok("Node.Networks", nodeName)>>
              /\ StateSet(NetworksModel(remoteNetworks[nodeName]))
    /\ Record("Read")
    /\ UNCHANGED <<focus, parVars, providerVars, dataVars, remoteZones, remoteGroups, remoteVnets, lastPlan>>

NetworksRead ==
    /\ focus = "networks"
    /\ LET nodeName == ValueString(dsConfig)
       IN  \/ \* client.Node returns an error
              /\ calls' = <<Err("Node", nodeName)>>
              /\ DataAbort("Unable to Read Proxmox Node")
           \/ \* node.Networks returns an error
              /\ nodeName \in DOMAIN remoteNetworks
              /\ calls' = <<Ok("Node", nodeName), Err("Node.Networks", nodeName)>>
              /\ DataAbort("Unable to Read Proxmox Node Networks")
           \/ /\ nodeName \in DOMAIN remoteNetworks
              /\ calls' = <<Ok("Node", nodeName), Ok("Node.Networks", nodeName)>>
              /\ StateSet(NetworksModel(remoteNetworks[nodeName]))
    /\ Record("Read")
    /\ UNCHANGED <<focus, parVars, providerVars, dataVars, remoteZones, remoteGroups, remoteVnets, lastPlan>>

(* A node appears with its interfaces, or its interfaces change.           *)
ForeignNetworksPut ==
    /\ focus = "networks"
    /\ \E n \in ClusterNodeNames, networks \in NetworkLists :
        /\ n \in DOMAIN remoteNetworks => networks # remoteNetworks[n]
        /\ remoteNetworks' =
             [m \in (DOMAIN remoteNetworks) \cup {n} |->
                 IF m = n THEN networks ELSE remoteNetworks[m]]
    /\ ForeignStep
    /\ UNCHANGED <<remoteZones, remoteGroups, remoteVnets, remoteNodes, dsConfig>>

(* A node leaves the cluster.                                              *)
ForeignNodeGone ==
    /\ focus = "networks"
    /\ \E n \in DOMAIN remoteNetworks :
        remoteNetworks' = [m \in (DOMAIN remoteNetworks) \ {n} |-> remoteNetworks[m]]
    /\ ForeignStep
    /\ UNCHANGED <<remoteZones, remoteGroups, remoteVnets, remoteNodes, dsConfig>>

-----------------------------------------------------------------------------
ConfigValues(v) == {Null, Unknown, StringValue(""), StringValue(v)}

Init ==
    /\ focus \in {"provider", "zone", "fwgroup", "vnet", "nodes", "networks"}
    /\ IF focus = "provider"
       THEN /\ config \in [host : ConfigValues("https://pve:8006"),
                           username : ConfigValues("root@pam"),
                           password : ConfigValues("secret")]
            /\ environ \in [PROXMOX_HOST : {"", "https://env:8006"},
                            PROXMOX_USERNAME : {"", "env@pam"},
                            PROXMOX_PASSWORD : {"", "envsecret"}]
       ELSE /\ config = [host |-> Null, username |-> Null, password |-> Null]
            /\ environ = [PROXMOX_HOST |-> "", PROXMOX_USERNAME |-> "",
                          PROXMOX_PASSWORD |-> ""]
    /\ stage = "start"
    /\ client = NilClient
    /\ versionCalls = 0
    /\ DataSourceData = NilClient
    /\ ResourceData = NilClient
    /\ diags = <<>>
    /\ faulted = FALSE
    /\ remoteZones = <<>>
    /\ remoteGroups = <<>>
    /\ remoteVnets = <<>>
    /\ remoteNodes = <<>>
    /\ remoteNetworks = <<>>
    /\ IF focus = "networks"
       THEN dsConfig \in {StringValue(n) : n \in NodeNames}
       ELSE dsConfig = Null
    /\ tfstate = NoState
    /\ ops = <<>>
    /\ start = <<>>
    /\ overlap = FALSE
    /\ calls = <<>>
    /\ lastOp = "None"
    /\ streak = 0
    /\ lastPlan = NoPlan

Next ==
    \/ Configure
    \/ ZoneCreate
    \/ ZoneRead
    \/ ZoneUpdate
    \/ ZoneDelete
    \/ ForeignZonePut
    \/ ForeignZoneDelete
    \/ GroupCreate
    \/ GroupRead
    \/ GroupUpdate
    \/ GroupDelete
    \/ ForeignGroupPut
    \/ ForeignGroupDelete
    \/ VnetCreate
    \/ VnetRead
    \/ VnetUpdate
    \/ VnetDelete
    \/ ForeignVnetPut
    \/ ForeignVnetDelete
    \/ NodesRead
    \/ ForeignNodesChange
    \/ NetworksRead
    \/ ForeignNetworksPut
    \/ ForeignNodeGone

Spec == Init /\ [][Next]_vars

-----------------------------------------------------------------------------
(* Two firewall group operations run at the same time                      *)
(*                                                                         *)
(* The plugin host may run the handlers of separate resource instances at  *)
(* the same time; they share the client handed out by Configure and        *)
(* nothing else.  Here one step is one remote call of one handler together *)
(* with the local code that follows it up to the next call.  The server    *)
(* serves one request at a time.  Which call of an operation fails is      *)
(* fixed when the operation starts, so that the same operation can be      *)
(* replayed alone.                                                         *)

Instances == {1, 2}

(* the identity key of each instance *)
ParKeys == <<"example", "other">>

(* rule lists of the groups and plans of the two instances *)
ParRuleLists ==
    {<<[Action |-> "ACCEPT", Type |-> "in"]>>,
     <<[Action |-> "DROP", Type |-> "in"], [Action |-> "ACCEPT", Type |-> "in"]>>}

(* clusterFirewallGroupResourceModel with the given group and rules *)
ParModel(key, rules) ==
    [Group |-> StringValue(key),
     FirewallRules |-> Slice([i \in 1..Len(rules) |-> RuleModel(rules[i])])]

ParModels(key) == {ParModel(key, l) : l \in ParRuleLists}

(* the handler's fwGroup variable before the first fetch *)
NoGroup == [Group |-> "", Rules |-> <<>>]

(* A handler about to make its first call: Create for an instance without  *)
(* state, Read, Update or Delete for one with state.  "model" is the plan  *)
(* of Create and Update and the prior state of Read and Delete.            *)
Started(key, op, model, prior, failAt) ==
    [key |-> key, op |-> op, model |-> model, state |-> prior,
     pc |-> IF op = "Delete" THEN "Return" ELSE "Cluster",
     failAt |-> failAt, n |-> 0, fwGroup |-> NoGroup, diags |-> <<>>, faulted |-> FALSE]

ParStarts(key) ==
    {Started(key, "Create", m, NoState, f) : m \in ParModels(key), f \in 0..3}
        \cup {Started(key, "Read", m, <<m>>, f) : m \in ParModels(key), f \in 0..2}
        \cup {Started(key, "Update", x[1], <<x[2]>>, f) :
                x \in {y \in ParModels(key) \X ParModels(key) : y[1] # y[2]}, f \in 0..5}
        \cup {Started(key, "Delete", m, <<m>>, 0) : m \in ParModels(key)}

(* the groups the server may hold when the operations start *)
ParTables ==
    UNION {{t \in [K -> [Group : K, Rules : ParRuleLists]] : \A k \in K : t[k].Group = k} :
              K \in SUBSET {ParKeys[i] : i \in Instances}}

(* the call the handler is about to make is the one that fails *)
Fails(o) == o.n + 1 = o.failAt

(* "resp.Diagnostics.AddError(...); return" after a call *)
Failed(o, summary) ==
    [o EXCEPT !.n = @ + 1, !.pc = "done", !.diags = AddError(<<>>, summary)]

Outcome(o, groups) == [op |-> o, groups |-> groups]

(* "cluster, err := r.client.Cluster(ctx)" *)
StepCluster(o, groups) ==
    IF Fails(o)
    THEN Outcome(Failed(o, "Unable to Read Proxmox Cluster"), groups)
    ELSE Outcome([o EXCEPT !.n = @ + 1,
                           !.pc = CASE o.op = "Create" -> "NewFWGroup"
                                    [] o.op = "Read" -> "Refetch"
                                    [] OTHER -> "FWGroup"],
                 groups)

(* Update: "fwGroup, err := cluster.FWGroup(ctx, plan.Group.ValueString())" *)
StepFWGroup(o, groups) ==
    LET name == ValueString(o.model.Group)
    IN  IF Fails(o) \/ name \notin DOMAIN groups
        THEN Outcome(Failed(o, "Unable to retrieve Proxmox Cluster Firewall Group"), groups)
        ELSE Outcome([o EXCEPT !.n = @ + 1, !.pc = "Delete", !.fwGroup = groups[name]], groups)

(* mutant: the delete removes every group of the cluster *)
StepDelete_DropsAll(o, groups) ==
    IF Fails(o) \/ o.fwGroup.Group \notin DOMAIN groups
    THEN Outcome(Failed(o, "Unable to Read Proxmox Cluster"), groups)
    ELSE Outcome([o EXCEPT !.n = @ + 1, !.pc = "NewFWGroup"], <<>>)

(* Update: "err = fwGroup.Delete(ctx)" *)
StepDelete(o, groups) ==
    IF Fails(o) \/ o.fwGroup.Group \notin DOMAIN groups
    THEN Outcome(Failed(o, "Unable to Read Proxmox Cluster"), groups)
    ELSE Outcome([o EXCEPT !.n = @ + 1, !.pc = "NewFWGroup"],
                 DropGroup(groups, o.fwGroup.Group))

(* Create and Update: "err = cluster.NewFWGroup(ctx, &fwGroupN)" *)
StepNewFWGroup(o, groups) ==
    LET fwGroupN == GroupFromPlan(o.model)
    IN  IF Fails(o) \/ fwGroupN.Group \in DOMAIN groups
        THEN Outcome(Failed(o, "Unable to create Proxmox Cluster Firewall Group"), groups)
        ELSE Outcome([o EXCEPT !.n = @ + 1, !.pc = "Refetch"], PutGroup(groups, fwGroupN))

(* The last fetch of Create, Read and Update, the copy of the fetched      *)
(* rules into the model and resp.State.Set.                                *)
StepRefetch(o, groups) ==
    LET name == ValueString(o.model.Group)
    IN  IF Fails(o) \/ name \notin DOMAIN groups
        THEN Outcome(Failed(o, "Unable to retrieve Proxmox Cluster Firewall Group"), groups)
        ELSE IF RulesFit(o.model, groups[name])
        THEN Outcome([o EXCEPT !.n = @ + 1, !.pc = "done", !.fwGroup = groups[name],
                               !.state = <<CopyRules(o.model, groups[name])>>],
                     groups)
        ELSE Outcome([o EXCEPT !.n = @ + 1, !.pc = "done", !.fwGroup = groups[name],
                               !.faulted = TRUE],
                     groups)

(* Delete: the handler returns at once and the host drops the state *)
StepReturn(o, groups) == Outcome([o EXCEPT !.pc = "done", !.state = NoState], groups)

(* the next step of a handler *)
Advance(o, groups) ==
    CASE o.pc = "Cluster" -> StepCluster(o, groups)
      [] o.pc = "FWGroup" -> StepFWGroup(o, groups)
      [] o.pc = "Delete" -> StepDelete(o, groups)
      [] o.pc = "NewFWGroup" -> StepNewFWGroup(o, groups)
      [] o.pc = "Refetch" -> StepRefetch(o, groups)
      [] OTHER -> StepReturn(o, groups)

(* the handler has made a call and has not returned yet *)
UnderWay(o) == o.pc # "done" /\ o.n > 0

(* instance i makes its next step *)
ParStep(i, pc) ==
    /\ focus = "concurrent"
    /\ ops[i].pc = pc
    /\ LET r == Advance(ops[i], remoteGroups)
       IN  /\ ops' = [ops EXCEPT ![i] = r.op]
           /\ remoteGroups' = r.groups
    /\ overlap' = (overlap \/ \E j \in Instances \ {i} : UnderWay(ops[j]))
    /\ UNCHANGED <<focus, start, providerVars, dataVars, remoteZones, remoteVnets, tfstate,
                   diags, faulted, calls, lastOp, streak, lastPlan>>

ParCluster == \E i \in Instances : ParStep(i, "Cluster")

ParFWGroup == \E i \in Instances : ParStep(i, "FWGroup")

ParDelete == \E i \in Instances : ParStep(i, "Delete")

ParNewFWGroup == \E i \in Instances : ParStep(i, "NewFWGroup")

ParRefetch == \E i \in Instances : ParStep(i, "Refetch")

ParReturn == \E i \in Instances : ParStep(i, "Return")

(* the client a successful Configure handed to every resource instance *)
SharedClient ==
    NewClient("https://pve:8006/api2/json", [Username |-> "root@pam", Password |-> "secret"])

(* Configure has returned; each instance is about to run one operation *)
InitPar ==
    /\ focus = "concurrent"
    /\ config = [host |-> Null, username |-> Null, password |-> Null]
    /\ environ = [PROXMOX_HOST |-> "", PROXMOX_USERNAME |-> "", PROXMOX_PASSWORD |-> ""]
    /\ stage = "returned"
    /\ client = SharedClient
    /\ versionCalls = 1
    /\ DataSourceData = SharedClient
    /\ ResourceData = SharedClient
    /\ diags = <<>>
    /\ faulted = FALSE
    /\ remoteZones = <<>>
    /\ remoteGroups \in ParTables
    /\ remoteVnets = <<>>
    /\ remoteNodes = <<>>
    /\ remoteNetworks = <<>>
    /\ dsConfig = Null
    /\ tfstate = NoState
    /\ ops \in [Instances -> UNION {ParStarts(ParKeys[i]) : i \in Instances}]
    /\ \A i \in Instances : ops[i].key = ParKeys[i]
    /\ start = [ops |-> ops, groups |-> remoteGroups]
    /\ overlap = FALSE
    /\ calls = <<>>
    /\ lastOp = "None"
    /\ streak = 0
    /\ lastPlan = NoPlan

NextPar ==
    \/ ParCluster
    \/ ParFWGroup
    \/ ParDelete
    \/ ParNewFWGroup
    \/ ParRefetch
    \/ ParReturn

SpecPar == InitPar /\ [][NextPar]_vars

-----------------------------------------------------------------------------
(* Properties                                                              *)

ZoneOnServer == remoteZones[ValueString(State.Zone)]

(* C1: after any successful Create, Read or Update of a zone, the digest   *)
(* of the persisted record equals the digest the server holds for that     *)
(* zone, also when the zone was changed by somebody else in between.       *)
C1_DigestMatchesServer ==
    (focus = "zone" /\ lastOp \in {"Create", "Read", "Update"} /\ LastOk) =>
        /\ HasState
        /\ ValueString(State.Zone) \in DOMAIN remoteZones
        /\ State.Digest = StringValue(ZoneOnServer.Digest)

Fields == {"host", "username", "password"}

EnvVar(f) ==
    CASE f = "host" -> environ.PROXMOX_HOST
      [] f = "username" -> environ.PROXMOX_USERNAME
      [] f = "password" -> environ.PROXMOX_PASSWORD

(* what the built client was given for a field *)
ClientHas(f, v) ==
    CASE f = "host" -> client.url = v \o "/api2/json"
      [] f = "username" -> client.username = v
      [] f = "password" -> client.password = v

Configured == focus = "provider" /\ stage # "start"

(* C2: for each of host, username and password the client is built from    *)
(* the explicit configuration value when there is one and from the         *)
(* environment variable otherwise; Configure fails when neither source     *)
(* supplies a value, and builds the client when every field has one.       *)
C2_ExplicitElseEnvironment ==
    Configured =>
        /\ \A f \in Fields :
             /\ (client.set /\ config[f].state = "known") => ClientHas(f, config[f].value)
             /\ (client.set /\ config[f].state = "null") => ClientHas(f, EnvVar(f))
             /\ (config[f].state = "null" /\ EnvVar(f) = "") =>
                    HasError(diags) /\ ~client.set /\ ~DataSourceData.set
        /\ (\A f \in Fields : \/ config[f].state = "known" /\ config[f].value # ""
                              \/ config[f].state = "null" /\ EnvVar(f) # "")
              => client.set

C2_Witness ==
    /\ Configured
    /\ stage = "returned"
    /\ DataSourceData.set
    /\ config.host.state = "known" /\ environ.PROXMOX_HOST # ""
    /\ config.username.state = "null"
    /\ config.password.state = "known" /\ environ.PROXMOX_PASSWORD = ""

Merged(f) == IF config[f].state = "null" THEN EnvVar(f) ELSE config[f].value

UnknownFields == {f \in Fields : config[f].state = "unknown"}

EmptyFields == {f \in Fields : Merged(f) = ""}

(* the diagnostics are attribute-scoped errors, exactly one for each field of S *)
OneErrorPerField(S) ==
    /\ Len(diags) = Cardinality(S)
    /\ \A i \in 1..Len(diags) : diags[i].severity = "error" /\ diags[i].path \in S
    /\ \A f \in S : \E i \in 1..Len(diags) : diags[i].path = f

NoClientExposed ==
    /\ versionCalls = 0
    /\ ~DataSourceData.set
    /\ ~ResourceData.set

(* C3 as stated: if any field is unknown or resolves to the empty string,  *)
(* Configure ends with one attribute-scoped error per such field, makes no *)
(* remote call and exposes no client.                                      *)
C3_OneErrorPerOffendingField ==
    (Configured /\ UnknownFields \cup EmptyFields # {}) =>
        /\ OneErrorPerField(UnknownFields \cup EmptyFields)
        /\ NoClientExposed

(* C3 amended: if any field is unknown, Configure ends with one            *)
(* attribute-scoped error per unknown field and none for the others;       *)
(* otherwise, if any field resolves to the empty string, with one per such *)
(* field.  In both cases no remote call is made and no client is exposed.  *)
C3_ErrorsPerUnknownElsePerEmpty ==
    (Configured /\ UnknownFields \cup EmptyFields # {}) =>
        /\ OneErrorPerField(IF UnknownFields # {} THEN UnknownFields ELSE EmptyFields)
        /\ NoClientExposed

C3_Witness ==
    /\ Configured
    /\ UnknownFields = {"host"}
    /\ "username" \in EmptyFields /\ config.username.state = "null"
    /\ Len(diags) = 1 /\ diags[1].path = "host"

ReadAfter(op) == lastOp = "Read" /\ LastOk /\ lastPlan # NoPlan /\ lastPlan[1].op = op

ThePlan == lastPlan[1].plan

(* C4: a zone created with a type and a bridge and not changed on the      *)
(* server since is read back with that type, that bridge and a non-empty   *)
(* digest.                                                                 *)
C4_ZoneReadAfterCreate ==
    (focus = "zone" /\ ReadAfter("Create") /\ ValueString(ThePlan.Bridge) # "") =>
        /\ State.Type = ThePlan.Type
        /\ State.Bridge = ThePlan.Bridge
        /\ State.Digest.state = "known"
        /\ State.Digest.value # ""

C4_Witness ==
    /\ focus = "zone"
    /\ ReadAfter("Create")
    /\ ThePlan.Type = StringValue("vlan")
    /\ ThePlan.Bridge = StringValue("vmbr0")
    /\ State.Bridge = StringValue("vmbr0")

GroupOnServer == remoteGroups[ValueString(State.Group)]

(* C5: a firewall group created with a rule list and not changed on the    *)
(* server since is read back with the same rules, same action and type at  *)
(* the same indexes.                                                       *)
C5_GroupReadAfterCreate ==
    (focus = "fwgroup" /\ ReadAfter("Create")) =>
        /\ Len(State.FirewallRules.elems) = Len(ThePlan.FirewallRules.elems)
        /\ \A i \in 1..Len(ThePlan.FirewallRules.elems) :
             /\ State.FirewallRules.elems[i].Action = ThePlan.FirewallRules.elems[i].Action
             /\ State.FirewallRules.elems[i].Type = ThePlan.FirewallRules.elems[i].Type

C5_Witness ==
    /\ focus = "fwgroup"
    /\ ReadAfter("Create")
    /\ ThePlan.FirewallRules.elems =
          <<[Action |-> StringValue("ACCEPT"), Type |-> StringValue("in")]>>
    /\ State.FirewallRules.elems[1] =
          [Action |-> StringValue("ACCEPT"), Type |-> StringValue("in")]

(* C6: after a successful Update of a firewall group and no change by      *)
(* somebody else, a Read leaves the local record and the group on the      *)
(* server with the rules of the new list and no others.                    *)
C6_GroupReadAfterUpdate ==
    (focus = "fwgroup" /\ ReadAfter("Update")) =>
        /\ State.FirewallRules.elems = ThePlan.FirewallRules.elems
        /\ ValueString(State.Group) \in DOMAIN remoteGroups
        /\ Len(GroupOnServer.Rules) = Len(ThePlan.FirewallRules.elems)
        /\ \A i \in 1..Len(GroupOnServer.Rules) :
             /\ GroupOnServer.Rules[i].Action = ThePlan.FirewallRules.elems[i].Action.value
             /\ GroupOnServer.Rules[i].Type = ThePlan.FirewallRules.elems[i].Type.value

C6_Witness ==
    /\ focus = "fwgroup"
    /\ ReadAfter("Update")
    /\ Len(lastPlan[1].prior[1].FirewallRules.elems) > Len(ThePlan.FirewallRules.elems)
    /\ Len(ThePlan.FirewallRules.elems) > 0

(* C7: for a managed resource, a Read that follows a successful Read, with *)
(* no change on the server in between, leaves the persisted record as the  *)
(* first Read left it.                                                     *)
C7_ReadIdempotent ==
    [][(focus \in {"zone", "fwgroup", "vnet"} /\ lastOp = "Read" /\ LastOk /\ lastOp' = "Read")
       => tfstate' = tfstate]_vars

C7_Witness ==
    /\ focus = "fwgroup"
    /\ streak = 2
    /\ ValueString(State.Group) \in DOMAIN remoteGroups
    /\ Len(GroupOnServer.Rules) > 0
    /\ Len(GroupOnServer.Rules) < Len(State.FirewallRules.elems)

(* C8: a successful Read of a zone whose dns is empty on the server leaves *)
(* the stored dns as it was.                                               *)
C8_EmptyDnsLeavesLocalDns ==
    [][(/\ focus = "zone"
        /\ lastOp' = "Read"
        /\ ~HasError(diags')
        /\ remoteZones[ValueString(State.Zone)].Dns = "")
          => tfstate'[1].Dns = State.Dns]_vars

(* C9: a Create whose remote create call fails ends with an error          *)
(* diagnostic and without state; state is stored only for an entity the    *)
(* server has created.                                                     *)
C9_FailedCreateStoresNothing ==
    (focus \in {"zone", "vnet", "fwgroup"} /\ lastOp = "Create") =>
        /\ HasError(diags) => ~HasState
        /\ ~HasState => (HasError(diags) \/ faulted)
        /\ HasState =>
             CASE focus = "zone" -> ValueString(State.Zone) \in DOMAIN remoteZones
               [] focus = "vnet" -> ValueString(State.Vnet) \in DOMAIN remoteVnets
               [] focus = "fwgroup" -> ValueString(State.Group) \in DOMAIN remoteGroups

C9_Witness ==
    /\ focus = "fwgroup"
    /\ lastOp = "Create"
    /\ HasError(diags)
    /\ diags[1].summary = "Unable to create Proxmox Cluster Firewall Group"
    /\ ~HasState

(* C10: after a Delete that ends without error diagnostic the entity is    *)
(* gone from the server.                                                   *)
C10_DeleteRemovesRemote ==
    [][(lastOp' = "Delete" /\ ~HasError(diags')) =>
          CASE focus = "zone" -> ValueString(State.Zone) \notin DOMAIN remoteZones'
            [] focus = "vnet" -> ValueString(State.Vnet) \notin DOMAIN remoteVnets'
            [] focus = "fwgroup" -> ValueString(State.Group) \notin DOMAIN remoteGroups']_vars

-----------------------------------------------------------------------------
(* a remote call of the most recent handler returned an error *)
SomeCallFailed == \E i \in 1..Len(calls) : calls[i].err

DataRead == focus \in {"nodes", "networks"} /\ lastOp = "Read"

(* C11: after a successful read of proxmox_nodes while the cluster lists N *)
(* nodes, the result holds exactly N records, the i-th one carrying the    *)
(* name and the status of the i-th node the server listed.                 *)
C11_OneRecordPerNode ==
    (focus = "nodes" /\ lastOp = "Read" /\ LastOk) =>
        /\ HasState
        /\ Len(State.Data.elems) = Len(remoteNodes)
        /\ \A i \in 1..Len(remoteNodes) :
              /\ State.Data.elems[i].Node = StringValue(remoteNodes[i].Name)
              /\ State.Data.elems[i].Status = StringValue(remoteNodes[i].Status)

C11_Witness ==
    /\ focus = "nodes" /\ lastOp = "Read" /\ LastOk
    /\ Len(remoteNodes) = MaxNodes
    /\ remoteNodes[1].Name = "pve2"
    /\ remoteNodes[2].Name = "pve1"
    /\ remoteNodes[1].Status # remoteNodes[2].Status

(* C12: a data source read in which a remote fetch failed (the cluster for *)
(* proxmox_nodes; the node lookup or the networks fetch for                *)
(* proxmox_node_networks) ends with an error diagnostic and sets no state. *)
C12_NoPartialResults ==
    (DataRead /\ SomeCallFailed) => (HasError(diags) /\ ~HasState)

C12_Witness ==
    /\ focus = "networks" /\ lastOp = "Read"
    /\ calls = <<Ok("Node", ValueString(dsConfig)), Err("Node.Networks", ValueString(dsConfig))>>
    /\ remoteNetworks[ValueString(dsConfig)] # <<>>

ResourceOp ==
    focus \in {"zone", "fwgroup", "vnet"} /\ lastOp \in {"Create", "Read", "Update", "Delete"}

(* C13: in every resource operation a remote call that returns an error    *)
(* ends the operation: it is the last call made, and the operation reports *)
(* an error diagnostic (this includes the zone's remote update and delete).*)
C13_EveryCallErrorFailsOperation ==
    ResourceOp =>
        \A i \in 1..Len(calls) : calls[i].err => (i = Len(calls) /\ HasError(diags))

(* C14: when no credential is unknown or empty, Configure builds the       *)
(* client and makes exactly one server-version call.  If that call fails,  *)
(* Configure aborts as an unrecoverable fault, with no diagnostic and no   *)
(* client handed to data sources or resources; if it succeeds, the client  *)
(* that was built is handed out as DataSourceData and as ResourceData.     *)
C14_OneVersionCallGatesClient ==
    (Configured /\ UnknownFields = {} /\ EmptyFields = {}) =>
        /\ versionCalls = 1
        /\ Len(calls) = 1
        /\ calls[1].call = "Version"
        /\ client # NilClient
        /\ IF calls[1].err
           THEN faulted /\ diags = <<>> /\ ~DataSourceData.set /\ ~ResourceData.set
           ELSE ~faulted /\ diags = <<>> /\ DataSourceData = client /\ ResourceData = client

C14_Witness ==
    /\ Configured
    /\ calls = <<Err("Version", "")>>
    /\ client # NilClient
    /\ stage = "panicked"

(* C15: in the firewall group Update, when the remote delete succeeds and  *)
(* the recreate that follows fails, the Update ends with an error          *)
(* diagnostic, the group is absent on the server, and the stored state is  *)
(* the one from before the Update.                                         *)
C15_FailedRecreateLeavesGroupDeleted ==
    [][(/\ focus = "fwgroup"
        /\ lastOp' = "Update"
        /\ Len(calls') = 4
        /\ calls'[3] = Ok("FWGroup.Delete", calls'[3].arg)
        /\ calls'[4] = Err("NewFWGroup", calls'[4].arg))
       => (/\ HasError(diags')
           /\ calls'[3].arg \notin DOMAIN remoteGroups'
           /\ calls'[3].arg \in DOMAIN remoteGroups
           /\ HasState'
           /\ tfstate' = tfstate)]_vars

C15_Witness ==
    /\ focus = "fwgroup"
    /\ lastOp = "Update"
    /\ Len(calls) = 4
    /\ calls[3] = Ok("FWGroup.Delete", ValueString(State.Group))
    /\ calls[4] = Err("NewFWGroup", ValueString(State.Group))
    /\ ValueString(State.Group) \notin DOMAIN remoteGroups

(* C16: in the firewall group Create, when the remote create succeeds and  *)
(* the fetch that follows fails, Create ends with an error diagnostic and  *)
(* stores no state, the group stays on the server, and no remote delete is *)
(* attempted.                                                              *)
C16_FailedFetchAfterCreateNoRollback ==
    (/\ focus = "fwgroup"
     /\ lastOp = "Create"
     /\ Len(calls) >= 3
     /\ calls[2] = Ok("NewFWGroup", calls[2].arg)
     /\ calls[3] = Err("FWGroup", calls[2].arg))
    => (/\ HasError(diags)
        /\ ~HasState
        /\ calls[2].arg \in DOMAIN remoteGroups
        /\ \A i \in 1..Len(calls) : calls[i].call # "FWGroup.Delete")

C16_Witness ==
    /\ focus = "fwgroup"
    /\ lastOp = "Create"
    /\ calls = <<Ok("Cluster", ""), Ok("NewFWGroup", "example"), Err("FWGroup", "example")>>
    /\ "example" \in DOMAIN remoteGroups

(* the rules of the stored firewall group, as a plain list *)
LocalRules == State.FirewallRules.elems

(* C17: after a successful Read of a firewall group the stored rule list   *)
(* equals the server's rule list element by element: same length, same    *)
(* order, same action and type at every index.                             *)
C17_ReadMirrorsRemoteRules ==
    (focus = "fwgroup" /\ lastOp = "Read" /\ LastOk) =>
        /\ Len(LocalRules) = Len(GroupOnServer.Rules)
        /\ \A i \in 1..Len(GroupOnServer.Rules) :
              LocalRules[i] = RuleModel(GroupOnServer.Rules[i])

(* what a Read that fails on its remote fetch reports, whatever the reason *)
ReadErrorDiags ==
    IF focus = "zone"
    THEN {AddError(<<>>, "Unable to Read Proxmox Node")}
    ELSE {AddError(<<>>, "Unable to Read Proxmox Cluster"),
          AddError(<<>>, "Unable to retrieve Proxmox Cluster Firewall Group")}

StoredIdentityMissing ==
    \/ focus = "zone" /\ HasState /\ ValueString(State.Zone) \notin DOMAIN remoteZones
    \/ focus = "fwgroup" /\ HasState /\ ValueString(State.Group) \notin DOMAIN remoteGroups

(* C18: a Read of a zone or firewall group whose identity is no longer on  *)
(* the server ends with the same error diagnostic as any other failed      *)
(* remote fetch and leaves the stored record as it was.                    *)
C18_ReadOfMissingKeepsRecord ==
    [][(StoredIdentityMissing /\ lastOp' = "Read")
       => (/\ diags' \in ReadErrorDiags
           /\ ~faulted'
           /\ tfstate' = tfstate)]_vars

C18_Witness ==
    /\ StoredIdentityMissing
    /\ lastOp = "Read"
    /\ diags \in ReadErrorDiags

ZoneWritten ==
    focus = "zone" /\ lastOp \in {"Create", "Update"} /\ LastOk /\ lastPlan # NoPlan

(* C19: after a successful zone Create or Update, the stored dns equals    *)
(* the server's dns when that is not the empty string and is the planned   *)
(* dns otherwise; the same holds for bridge.                               *)
C19_EmptyServerValueKeepsPlanned ==
    ZoneWritten =>
        /\ State.Dns = IF ZoneOnServer.Dns # ""
                       THEN StringValue(ZoneOnServer.Dns) ELSE ThePlan.Dns
        /\ State.Bridge = IF ZoneOnServer.Bridge # ""
                          THEN StringValue(ZoneOnServer.Bridge) ELSE ThePlan.Bridge

C19_Witness ==
    /\ ZoneWritten
    /\ lastOp = "Update"
    /\ ZoneOnServer.Dns = ""
    /\ ~IsNull(ThePlan.Dns)
    /\ ThePlan.Dns # StringValue("")
    /\ State.Dns = ThePlan.Dns
    /\ ZoneOnServer.Bridge # ""

NetworksOnServer == remoteNetworks[ValueString(dsConfig)]

(* C20: a successful read of proxmox_node_networks looks the configured    *)
(* node up and then fetches its networks, and its result holds one record  *)
(* per interface the server listed, in the server's order, with method,    *)
(* iface and type copied and active true exactly when the server's active  *)
(* flag is 1.                                                              *)
C20_OneRecordPerInterface ==
    (focus = "networks" /\ lastOp = "Read" /\ LastOk) =>
        /\ calls = <<Ok("Node", ValueString(dsConfig)),
                     Ok("Node.Networks", ValueString(dsConfig))>>
        /\ HasState
        /\ Len(State.Networks.elems) = Len(NetworksOnServer)
        /\ \A i \in 1..Len(NetworksOnServer) :
              /\ State.Networks.elems[i].Method = StringValue(NetworksOnServer[i].Method)
              /\ State.Networks.elems[i].Iface = StringValue(NetworksOnServer[i].Iface)
              /\ State.Networks.elems[i].Type = StringValue(NetworksOnServer[i].Type)
              /\ State.Networks.elems[i].Active = BoolValue(NetworksOnServer[i].Active = 1)

C20_Witness ==
    /\ focus = "networks" /\ lastOp = "Read" /\ LastOk
    /\ Len(NetworksOnServer) = MaxNetworks
    /\ NetworksOnServer[1].Active = 2
    /\ NetworksOnServer[2].Active = 1
    /\ State.Networks.elems[1].Active = BoolValue(FALSE)
    /\ State.Networks.elems[2].Active = BoolValue(TRUE)

(* C22: in the firewall group Create, Read and Update the copy of the      *)
(* fetched rules into the local rule list never writes outside the local   *)
(* list: whatever the length of the server's list, the operation ends      *)
(* without an out-of-range fault.                                          *)
C22_CopyNeverOutOfRange ==
    (focus = "fwgroup" /\ lastOp \in {"Create", "Read", "Update"}) => ~faulted

-----------------------------------------------------------------------------
(* an operation run alone, from its first call to its return *)
RECURSIVE RunToEnd(_, _)
RunToEnd(o, groups) ==
    IF o.pc = "done"
    THEN Outcome(o, groups)
    ELSE LET r == Advance(o, groups) IN RunToEnd(r.op, r.groups)

(* the two operations run one after the other from where they started *)
OneAfterTheOther(first, second) ==
    LET a == RunToEnd(start.ops[first], start.groups)
        b == RunToEnd(start.ops[second], a.groups)
    IN  [groups |-> b.groups,
         state |-> [i \in Instances |-> IF i = first THEN a.op.state ELSE b.op.state]]

AllReturned == focus = "concurrent" /\ \A i \in Instances : ops[i].pc = "done"

(* what the two operations left behind: the server's groups and the stored *)
(* record of each instance                                                 *)
LeftBehind == [groups |-> remoteGroups, state |-> [i \in Instances |-> ops[i].state]]

====
